---- MODULE Spec2Model ----
(***************************************************************************)
(* The offline recommendation engine (OfflineRecommendationEngine): its    *)
(* feature extraction, similarity score, document index, localStorage      *)
(* persistence and lazy initialisation, as a state machine.                *)
(*                                                                         *)
(* A text is a sequence of one-character strings.  A token is a sequence   *)
(* of lower-case characters.  Numbers that are fractions in the program    *)
(* are held exactly.  An embedding, an array of numbers count/words.length,*)
(* is held as its length, the common denominator den and the numerators    *)
(* num of its non-zero coordinates (indexed from 0).  A similarity is an   *)
(* integer number of 1/(10*Scale) units in which the cosine is rounded     *)
(* down to 1/Scale.                                                        *)
(***************************************************************************)
EXTENDS Integers, Sequences, FiniteSets, TLC

\* ------------------------------------------------------------ characters

Lower == <<"a","b","c","d","e","f","g","h","i","j","k","l","m",
           "n","o","p","q","r","s","t","u","v","w","x","y","z">>

Upper == <<"A","B","C","D","E","F","G","H","I","J","K","L","M",
           "N","O","P","Q","R","S","T","U","V","W","X","Y","Z">>

Digits == <<"0","1","2","3","4","5","6","7","8","9">>

IndexIn(seq, c) == CHOOSE i \in 1..Len(seq) : seq[i] = c

IsIn(seq, c) == \E i \in 1..Len(seq) : seq[i] = c

\* String.prototype.charCodeAt for the characters of the model's alphabet
charCodeAt(c) ==
  IF IsIn(Lower, c) THEN 96 + IndexIn(Lower, c)
  ELSE IF IsIn(Upper, c) THEN 64 + IndexIn(Upper, c)
  ELSE IF IsIn(Digits, c) THEN 47 + IndexIn(Digits, c)
  ELSE IF c = "_" THEN 95
  ELSE IF c = "." THEN 46
  ELSE 32

\* String.prototype.toLowerCase, one character
LowerChar(c) == IF IsIn(Upper, c) THEN Lower[IndexIn(Upper, c)] ELSE c

toLowerCase(text) == [i \in 1..Len(text) |-> LowerChar(text[i])]

\* the regular expression class \w
IsWordChar(c) == IsIn(Lower, c) \/ IsIn(Upper, c) \/ IsIn(Digits, c) \/ c = "_"

\* String.prototype.substring(0, n)
substring(text, n) == SubSeq(text, 1, IF Len(text) < n THEN Len(text) ELSE n)

\* ------------------------------------------------------------ tokens

\* text.match(/\b\w+\b/g) || [] : the maximal runs of word characters, in
\* the order of their first characters
RunStarts(text) ==
  {i \in 1..Len(text) :
     IsWordChar(text[i]) /\ (i = 1 \/ ~IsWordChar(text[i - 1]))}

RunEnd(text, i) ==
  CHOOSE j \in i..Len(text) :
    /\ \A k \in i..j : IsWordChar(text[k])
    /\ j = Len(text) \/ ~IsWordChar(text[j + 1])

MatchWords(text) ==
  LET starts == RunStarts(text)
      Nth(n) == CHOOSE i \in starts : Cardinality({j \in starts : j < i}) = n - 1
  IN  [n \in 1..Cardinality(starts) |-> SubSeq(text, Nth(n), RunEnd(text, Nth(n)))]

\* text.match(/\b\w{4,}\b/g) || [] : the runs of at least MinKeywordLen
MinKeywordLen == 4

MatchLongWords(text) == SelectSeq(MatchWords(text), LAMBDA w : Len(w) >= MinKeywordLen)

\* words.forEach(word => { if (keep) map.set(word, (map.get(word) || 0) + 1) })
\* on a new Map<string, number>.  The map is held in insertion order as a
\* sequence of [word, count]: a key is inserted where the word is first
\* kept, and its count ends as the number of occurrences of the word.
CountWords(words, keep(_)) ==
  LET firsts == {i \in 1..Len(words) :
                   keep(words[i]) /\ \A j \in 1..(i - 1) : words[j] # words[i]}
      Nth(n) == CHOOSE i \in firsts : Cardinality({j \in firsts : j < i}) = n - 1
  IN  [n \in 1..Cardinality(firsts) |->
         [word |-> words[Nth(n)],
          count |-> Cardinality({j \in 1..Len(words) : words[j] = words[Nth(n)]})]]

\* ------------------------------------------------------------ simpleHash

\* The 32-bit hash is held as two 16-bit halves [hi, lo] of its unsigned
\* value, so that no intermediate value leaves the 32-bit range.
Half == 256 * 256

\* hash = ((hash << 5) - hash) + char; hash = hash & hash
HashStep(h, code) ==
  LET lo == h.lo * 31 + code
      hi == h.hi * 31 + (lo \div Half)
  IN  [hi |-> hi % Half, lo |-> lo % Half]

RECURSIVE HashFrom(_, _, _)
HashFrom(str, i, h) ==
  IF i > Len(str) THEN h
  ELSE HashFrom(str, i + 1, HashStep(h, charCodeAt(str[i])))

\* the hash read as an unsigned value
UnsignedHash(h) == h

\* Math.abs of the signed value of h, again as two halves (hi may be 32768)
AbsHash(h) ==
  IF h.hi < Half \div 2 THEN h
  ELSE IF h.lo = 0 THEN [hi |-> Half - h.hi, lo |-> 0]
  ELSE [hi |-> Half - 1 - h.hi, lo |-> Half - h.lo]

simpleHash(str) == AbsHash(HashFrom(str, 1, [hi |-> 0, lo |-> 0]))

EmbeddingDim == 100

\* simpleHash(word) % 100
Bucket(word) ==
  LET h == simpleHash(word)
  IN  ((h.hi % EmbeddingDim) * (Half % EmbeddingDim) + h.lo) % EmbeddingDim

\* ------------------------------------------------------------ features

MinWordLen == 2

MaxEmbedIndex == 50

\* for (const [word, count] of wordCount.entries()) { ...; index++;
\*   if (index > 50) break }    : index is the number of entries folded, so
\* the loop reaches the entry at position k (from 1) where none of the
\* values 1..k-1 that index took before it was above 50
Reached(map) ==
  {k \in 1..Len(map) : \A index \in 1..(k - 1) : ~(index > MaxEmbedIndex)}

\* new Array(100).fill(0): no non-zero coordinate
AllZero == [i \in {} |-> 0]

\* embedding[hash] += count / words.length for every entry reached, on the
\* numerators and over the array of zeros: at each hash the sum of the
\* counts of the entries with that hash
FoldCounts(map) ==
  LET hash == [k \in Reached(map) |-> Bucket(map[k].word)]
  IN  [h \in {hash[k] : k \in Reached(map)} |->
         Cardinality(UNION {{<<k, c>> : c \in 1..map[k].count} :
                              k \in {r \in Reached(map) : hash[r] = h}})]
        @@ AllZero

\* embedding[i], as a numerator
Coordinate(embedding, i) ==
  IF i \in DOMAIN embedding.num THEN embedding.num[i] ELSE 0

\* an embedding that counts the words of every length
generateEmbeddingOfAllWords(text) ==
  LET words == MatchWords(toLowerCase(text))
      wordCount == CountWords(words, LAMBDA w : TRUE)
  IN  [length |-> EmbeddingDim, den |-> Len(words),
       num |-> FoldCounts(wordCount)]

generateSimpleEmbedding(text) ==
  LET words == MatchWords(toLowerCase(text))
      wordCount == CountWords(words, LAMBDA w : Len(w) > MinWordLen)
  IN  [length |-> EmbeddingDim, den |-> Len(words),
       num |-> FoldCounts(wordCount)]

StopWords ==
  { <<"t","h","e">>, <<"a">>, <<"a","n">>, <<"a","n","d">>, <<"o","r">>,
    <<"b","u","t">>, <<"i","n">>, <<"o","n">>, <<"a","t">>, <<"t","o">>,
    <<"f","o","r">>, <<"o","f">>, <<"w","i","t","h">>, <<"b","y">>,
    <<"t","h","i","s">>, <<"t","h","a","t">>, <<"t","h","e","s","e">>,
    <<"t","h","o","s","e">>, <<"i","s">>, <<"a","r","e">>, <<"w","a","s">>,
    <<"w","e","r","e">>, <<"b","e">>, <<"b","e","e","n">>,
    <<"h","a","v","e">>, <<"h","a","s">>, <<"h","a","d">>,
    <<"w","i","l","l">>, <<"w","o","u","l","d">>, <<"c","o","u","l","d">>,
    <<"s","h","o","u","l","d">> }

isStopWord(word) == word \in StopWords

\* an insertion that puts a word before those of equal count
RECURSIVE InsertBeforeEqualCount(_, _)
InsertBeforeEqualCount(sorted, e) ==
  IF sorted = <<>> THEN <<e>>
  ELSE IF Head(sorted).count > e.count
    THEN <<Head(sorted)>> \o InsertBeforeEqualCount(Tail(sorted), e)
    ELSE <<e>> \o sorted

\* Array.prototype.sort((a, b) => b[1] - a[1]) : stable insertion by count
RECURSIVE InsertByCount(_, _)
InsertByCount(sorted, e) ==
  IF sorted = <<>> THEN <<e>>
  ELSE IF Head(sorted).count >= e.count
    THEN <<Head(sorted)>> \o InsertByCount(Tail(sorted), e)
    ELSE <<e>> \o sorted

RECURSIVE SortByCount(_, _, _)
SortByCount(map, i, sorted) ==
  IF i > Len(map) THEN sorted
  ELSE SortByCount(map, i + 1, InsertByCount(sorted, map[i]))

MaxKeywords == 10

\* .map(([word]) => word)
RECURSIVE Words(_)
Words(entries) ==
  IF entries = <<>> THEN <<>>
  ELSE <<Head(entries).word>> \o Words(Tail(entries))

extractKeywords(text) ==
  LET words == MatchLongWords(toLowerCase(text))
      frequency == CountWords(words, LAMBDA w : ~isStopWord(w))
      byCount == SortByCount(frequency, 1, <<>>)
      top == SubSeq(byCount, 1, IF Len(byCount) < MaxKeywords
                                  THEN Len(byCount) ELSE MaxKeywords)
  IN  Words(top)

\* ------------------------------------------------------------ similarity

\* Similarities are counted in units of 1/(10*Scale); Scale is a multiple
\* of every keyword-list length 1..10, so the keyword ratio is exact.
Scale == 8 * 9 * 5 * 7

CosineWeight == 7

KeywordWeight == 3

\* relevance floor of findRelatedSections: 0.3, in units of 1/(10*Scale)
Threshold == 3 * Scale

RECURSIVE SqrtBetween(_, _, _)
SqrtBetween(x, lo, hi) ==
  IF lo >= hi THEN lo
  ELSE LET mid == (lo + hi + 1) \div 2
       IN  IF mid * mid <= x THEN SqrtBetween(x, mid, hi)
           ELSE SqrtBetween(x, lo, mid - 1)

\* floor of Math.sqrt(x) for 0 <= x <= Scale * Scale
FloorSqrt(x) == SqrtBetween(x, 0, Scale)

\* floor of Scale * Scale * a / b for 0 <= a <= b, in two steps so that no
\* intermediate value leaves the 32-bit range
ScaledRatio(a, b) ==
  Scale * ((Scale * a) \div b) + (Scale * ((Scale * a) % b)) \div b

\* the loop of calculateSimilarity over i < embedding1.length, on numerators
RECURSIVE SumProducts(_, _, _)
SumProducts(a, b, i) ==
  IF i >= a.length THEN 0
  ELSE Coordinate(a, i) * Coordinate(b, i) + SumProducts(a, b, i + 1)

Max(a, b) == IF a >= b THEN a ELSE b

\* a similarity whose cosine is 1 where a norm is 0
calculateSimilarityUnguarded(embedding1, embedding2, keywords1, keywords2) ==
  LET dotProduct == SumProducts(embedding1, embedding2, 0)
      norm1 == SumProducts(embedding1, embedding1, 0)
      norm2 == SumProducts(embedding2, embedding2, 0)
      cosineSim == IF norm1 # 0 /\ norm2 # 0
                     THEN FloorSqrt(ScaledRatio(dotProduct * dotProduct,
                                                norm1 * norm2))
                     ELSE Scale
      overlap == Len(SelectSeq(keywords1, LAMBDA k : IsIn(keywords2, k)))
      keywordSim == (Scale * overlap)
                    \div Max(Max(Len(keywords1), Len(keywords2)), 1)
  IN  cosineSim * CosineWeight + keywordSim * KeywordWeight

calculateSimilarity(embedding1, embedding2, keywords1, keywords2) ==
  LET dotProduct == SumProducts(embedding1, embedding2, 0)
      norm1 == SumProducts(embedding1, embedding1, 0)
      norm2 == SumProducts(embedding2, embedding2, 0)
      \* dotProduct / (sqrt(norm1) * sqrt(norm2)): the denominators cancel
      cosineSim == IF norm1 # 0 /\ norm2 # 0
                     THEN FloorSqrt(ScaledRatio(dotProduct * dotProduct,
                                                norm1 * norm2))
                     ELSE 0
      overlap == Len(SelectSeq(keywords1, LAMBDA k : IsIn(keywords2, k)))
      keywordSim == (Scale * overlap)
                    \div Max(Max(Len(keywords1), Len(keywords2)), 1)
  IN  cosineSim * CosineWeight + keywordSim * KeywordWeight

\* ------------------------------------------------------------ inputs

\* "Data cat"
TDataCat == <<"D","a","t","a"," ","c","a","t">>

\* "data"
TData == <<"d","a","t","a">>

\* "data data cat"
TDataDataCat == <<"d","a","t","a"," ","d","a","t","a"," ","c","a","t">>

\* "aaa aaa bbb ccc ddd"
TAaa == <<"a","a","a"," ","a","a","a"," ","b","b","b"," ","c","c","c"," ","d","d","d">>

\* "eee eee bbb ccc ddd": cosine 3/7 with TAaa and no keyword, a score of exactly 0.3
TEee == <<"e","e","e"," ","e","e","e"," ","b","b","b"," ","c","c","c"," ","d","d","d">>

EmptyText == <<>>

\* "  "
TBlank == <<" ", " ">>

\* "a bc": no token longer than 2 characters
TShort == <<"a", " ", "b", "c">>

\* "Offline offline": the 32-bit hash of "offline" is negative before Math.abs
TOffline ==
  <<"O","f","f","l","i","n","e"," ","o","f","f","l","i","n","e">>

\* "with Aaaa bbbb with cccc dddd eeee ffff gggg hhhh iiii jjjj kkkk kkkk":
\* eleven distinct tokens of 4 characters that are no stop word, the last
\* one twice, and a stop word twice
TMany ==
  <<"w","i","t","h"," ","A","a","a","a"," ","b","b","b","b"," ","w","i","t",
    "h"," ","c","c","c","c"," ","d","d","d","d"," ","e","e","e","e"," ","f",
    "f","f","f"," ","g","g","g","g"," ","h","h","h","h"," ","i","i","i","i",
    " ","j","j","j","j"," ","k","k","k","k"," ","k","k","k","k">>

\* "machine learning models require training data"
TMachine ==
  <<"m","a","c","h","i","n","e"," ","l","e","a","r","n","i","n","g"," ","m",
    "o","d","e","l","s"," ","r","e","q","u","i","r","e"," ","t","r","a","i",
    "n","i","n","g"," ","d","a","t","a">>

\* "the chef prepared a delicious meal"
TChef ==
  <<"t","h","e"," ","c","h","e","f"," ","p","r","e","p","a","r","e","d"," ",
    "a"," ","d","e","l","i","c","i","o","u","s"," ","m","e","a","l">>

\* "training data is essential for machine learning"
TTraining ==
  <<"t","r","a","i","n","i","n","g"," ","d","a","t","a"," ","i","s"," ","e",
    "s","s","e","n","t","i","a","l"," ","f","o","r"," ","m","a","c","h","i",
    "n","e"," ","l","e","a","r","n","i","n","g">>

\* "data", 1000 full stops, " cat": longer than the stored excerpt
TLong ==
  TData \o [i \in 1..1000 |-> "."] \o <<" ","c","a","t">>

\* "w01 w02 ... w52": 52 distinct tokens of 3 characters; the bucket of w51
\* is 51 and that of w52 is 52, and no earlier token has either
TFiftyTwo ==
  <<
    "w","0","1"," ","w","0","2"," ","w","0","3"," ","w","0","4"," ",
    "w","0","5"," ","w","0","6"," ","w","0","7"," ","w","0","8"," ",
    "w","0","9"," ","w","1","0"," ","w","1","1"," ","w","1","2"," ",
    "w","1","3"," ","w","1","4"," ","w","1","5"," ","w","1","6"," ",
    "w","1","7"," ","w","1","8"," ","w","1","9"," ","w","2","0"," ",
    "w","2","1"," ","w","2","2"," ","w","2","3"," ","w","2","4"," ",
    "w","2","5"," ","w","2","6"," ","w","2","7"," ","w","2","8"," ",
    "w","2","9"," ","w","3","0"," ","w","3","1"," ","w","3","2"," ",
    "w","3","3"," ","w","3","4"," ","w","3","5"," ","w","3","6"," ",
    "w","3","7"," ","w","3","8"," ","w","3","9"," ","w","4","0"," ",
    "w","4","1"," ","w","4","2"," ","w","4","3"," ","w","4","4"," ",
    "w","4","5"," ","w","4","6"," ","w","4","7"," ","w","4","8"," ",
    "w","4","9"," ","w","5","0"," ","w","5","1"," ","w","5","2"
  >>

\* "xfjfxtf": its 32-bit hash is -2^31, the one value Math.abs leaves
\* outside the signed range
TEdge == <<"x","f","j","f","x","t","f">>

Texts == {TDataCat, TData, TDataDataCat, TAaa, TEee, EmptyText,
          TBlank, TShort, TOffline, TMany, TMachine, TChef, TTraining, TLong,
          TFiftyTwo, TEdge}

\* PDFDocument values handed to addDocument
DocA == [id |-> "A", name |-> "a.pdf"]

DocB == [id |-> "B", name |-> "b.pdf"]

Docs == {DocA, DocB}

DocIds == {d.id : d \in Docs}

\* textContent arrays handed to addDocument under Spec
PageLists == { <<TData>>, <<TAaa, TEee>> }

\* textContent arrays handed to addDocument under SpecRank
RankLists == { <<TDataCat, TData, TDataDataCat>>, <<TData, TDataCat, TData>>,
               <<TAaa, TEee>> }

\* textContent arrays handed to addDocument under SpecIngest
SegmentLists == { <<>>, <<EmptyText>>, <<TData, EmptyText, TDataCat>>,
                  <<TBlank, TShort>>, <<TOffline>>, <<TMany>>,
                  <<TFiftyTwo>>, <<TEdge>> }

\* textContent arrays handed to addDocument under SpecScenario
ScenarioLists == { <<TMachine, TChef>>, <<TTraining>>,
                   <<TLong, EmptyText, TShort>> }

\* selectedText: << >> is undefined, <<t>> is the string t
Undefined == <<>>

Selections == {Undefined, <<EmptyText>>, <<TData>>}

\* currentPage ranges over 1..MaxPage
MaxPage == 4

\* number of findRelatedSections calls suspended at their await
MaxPending == 2

\* ------------------------------------------------------------ the corpus

MaxStoredChars == 1000

\* The texts the engine extracts features from: the ingested ones, their
\* stored excerpts and the selections.  Their features are computed once.
KnownTexts == Texts \cup {substring(t, MaxStoredChars) : t \in Texts}

FeatureTable ==
  {[text |-> t, embedding |-> generateSimpleEmbedding(t),
    keywords |-> extractKeywords(t)] : t \in KnownTexts}

EmbeddingOf ==
  [t \in KnownTexts |-> (CHOOSE row \in FeatureTable : row.text = t).embedding]

KeywordsOf ==
  [t \in KnownTexts |-> (CHOOSE row \in FeatureTable : row.text = t).keywords]

\* The similarity of every pair of feature sets of those texts, computed once.
Features(embedding, keywords) == [embedding |-> embedding, keywords |-> keywords]

KnownFeatures == {Features(EmbeddingOf[t], KeywordsOf[t]) : t \in KnownTexts}

SimilarityOf ==
  [f1 \in KnownFeatures, f2 \in KnownFeatures |->
     calculateSimilarity(f1.embedding, f2.embedding, f1.keywords, f2.keywords)]

\* pages numbered from 0
PageEmbeddingsFromZero(textContent) ==
  [index \in 1..Len(textContent) |->
     [pageNumber |-> index - 1,
      text |-> substring(textContent[index], MaxStoredChars),
      embedding |-> EmbeddingOf[textContent[index]],
      keywords |-> KeywordsOf[textContent[index]]]]

\* textContent.map((text, index) => ({ pageNumber: index + 1, ... }))
PageEmbeddings(textContent) ==
  [index \in 1..Len(textContent) |->
     [pageNumber |-> index,
      text |-> substring(textContent[index], MaxStoredChars),
      embedding |-> EmbeddingOf[textContent[index]],
      keywords |-> KeywordsOf[textContent[index]]]]

\* the DocumentEmbedding that addDocument builds
Embedding(document, textContent) ==
  [id |-> document.id, name |-> document.name,
   pageEmbeddings |-> PageEmbeddings(textContent)]

\* Map<string, DocumentEmbedding> in insertion order: a sequence of entries
RECURSIVE KeyIndex(_, _, _)
KeyIndex(map, id, i) ==
  IF i > Len(map) THEN 0
  ELSE IF map[i].id = id THEN i
  ELSE KeyIndex(map, id, i + 1)

MapHas(map, id) == KeyIndex(map, id, 1) # 0

MapGet(map, id) == map[KeyIndex(map, id, 1)]

\* a set that keeps the pages of the old value beyond the last new one
MapSetMerging(map, id, value) ==
  LET i == KeyIndex(map, id, 1) IN
  IF i = 0 THEN Append(map, value)
  ELSE IF "pageEmbeddings" \in DOMAIN value
          /\ "pageEmbeddings" \in DOMAIN map[i]
          /\ Len(map[i].pageEmbeddings) > Len(value.pageEmbeddings)
    THEN [map EXCEPT ![i] =
            [value EXCEPT !.pageEmbeddings =
               @ \o SubSeq(map[i].pageEmbeddings, Len(value.pageEmbeddings) + 1,
                           Len(map[i].pageEmbeddings))]]
  ELSE [map EXCEPT ![i] = value]

\* Map.prototype.set: an existing key keeps its place
MapSet(map, id, value) ==
  LET i == KeyIndex(map, id, 1) IN
  IF i = 0 THEN Append(map, value) ELSE [map EXCEPT ![i] = value]

\* ------------------------------------------------------------ localStorage

\* The item under 'offline_documents': absent, or a string that is not
\* JSON, or the JSON of an object, or the JSON of an array.  JSON.stringify
\* and JSON.parse keep strings, finite numbers, arrays and plain objects as
\* they are, so the array is held as the sequence of its elements.
NoItem == [kind |-> "none", elements |-> <<>>]

CorruptItem == [kind |-> "corrupt", elements |-> <<>>]

ObjectItem == [kind |-> "object", elements |-> <<>>]

ArrayItem(elements) == [kind |-> "array", elements |-> elements]

\* the array element null
NullElement == [null |-> TRUE]

IsNull(e) == DOMAIN e = {"null"}

\* a write of the entry that is last in the map only
StringifyNewest(map) ==
  IF map = <<>> THEN ArrayItem(<<>>) ELSE ArrayItem(<<map[Len(map)]>>)

\* JSON.stringify(Array.from(this.documents.values()))
Stringify(map) == ArrayItem([i \in 1..Len(map) |-> map[i]])

\* a save that never reaches the store
SavedNothing(map, item, setOk) == item

\* what setItem leaves in the store: saveToStorage, lines 232-233
Saved(map, item, setOk) == IF setOk THEN Stringify(map) ELSE item

\* parsed.forEach(doc => this.documents.set(doc.id, doc)): stops where
\* doc.id throws
RECURSIVE ForEachSet(_, _, _)
ForEachSet(map, elements, i) ==
  IF i > Len(elements) THEN [documents |-> map, threw |-> FALSE]
  ELSE IF IsNull(elements[i]) THEN [documents |-> map, threw |-> TRUE]
  ELSE ForEachSet(MapSet(map, elements[i].id, elements[i]), elements, i + 1)

Call(name, ok) == [call |-> name, ok |-> ok]

\* the try block of initialize(): the corpus, the flag and the storage
\* call it leaves; isInitialized is set only where nothing threw
Load(map, item, getOk) ==
  IF ~getOk
    THEN [documents |-> map, isInitialized |-> FALSE,
          io |-> <<Call("getItem", FALSE)>>]
  ELSE IF item.kind = "none"
    THEN [documents |-> map, isInitialized |-> TRUE,
          io |-> <<Call("getItem", TRUE)>>]
  ELSE IF item.kind \in {"corrupt", "object"}
    THEN [documents |-> map, isInitialized |-> FALSE,
          io |-> <<Call("getItem", TRUE)>>]
  ELSE LET r == ForEachSet(map, item.elements, 1)
       IN  [documents |-> r.documents, isInitialized |-> ~r.threw,
            io |-> <<Call("getItem", TRUE)>>]

\* an initialize() that loads the store on every call
initializeAgain(map, initialized, item, getOk) == Load(map, item, getOk)

\* initialize(): if (this.isInitialized) return; try { ... }
initialize(map, initialized, item, getOk) ==
  IF initialized
    THEN [documents |-> map, isInitialized |-> TRUE, io |-> <<>>]
    ELSE Load(map, item, getOk)

\* ------------------------------------------------------------ the query

\* a query that takes the last page where currentPage is beyond it
QueryTextOrLastPage(currentDoc, currentPage, selectedText) ==
  IF selectedText # Undefined /\ selectedText[1] # EmptyText
    THEN selectedText[1]
  ELSE IF currentDoc.pageEmbeddings = <<>> THEN EmptyText
  ELSE IF currentPage \in 1..Len(currentDoc.pageEmbeddings)
    THEN currentDoc.pageEmbeddings[currentPage].text
  ELSE currentDoc.pageEmbeddings[Len(currentDoc.pageEmbeddings)].text

\* selectedText || currentDoc.pageEmbeddings[currentPage - 1]?.text || ''
QueryText(currentDoc, currentPage, selectedText) ==
  IF selectedText # Undefined /\ selectedText[1] # EmptyText
    THEN selectedText[1]
  ELSE IF currentPage \in 1..Len(currentDoc.pageEmbeddings)
          /\ currentDoc.pageEmbeddings[currentPage].text # EmptyText
    THEN currentDoc.pageEmbeddings[currentPage].text
  ELSE EmptyText

\* a skip that takes currentPage for the 0-based index of the page
IsCurrentPageByIndex(docId, pageNumber, currentDocId, currentPage) ==
  docId = currentDocId /\ pageNumber - 1 = currentPage

\* if (docId === currentDocId && page.pageNumber === currentPage) continue
IsCurrentPage(docId, pageNumber, currentDocId, currentPage) ==
  docId = currentDocId /\ pageNumber = currentPage

\* a floor of 0.1
IsRelevantAboveTenth(similarity) == similarity > Scale

\* a floor that lets a score of exactly 0.3 through
IsRelevantOrEqual(similarity) == similarity >= Threshold

\* if (similarity > 0.3)
IsRelevant(similarity) == similarity > Threshold

SnippetChars == 150

Ellipsis == <<".", ".", ".">>

\* a RelatedSection whose snippet is the whole stored text
SectionOfWholeText(doc, page, similarity) ==
  [section |->
     [id |-> <<doc.id, "-", page.pageNumber>>,
      documentId |-> doc.id,
      documentName |-> doc.name,
      pageNumber |-> page.pageNumber,
      content |-> page.text,
      snippet |-> page.text \o Ellipsis,
      relevanceScore |-> similarity,
      position |-> [x |-> 0, y |-> 0, width |-> 100, height |-> 20]],
   score |-> similarity]

\* the RelatedSection pushed for a page, with the score it is ranked by
Section(doc, page, similarity) ==
  [section |->
     [id |-> <<doc.id, "-", page.pageNumber>>,
      documentId |-> doc.id,
      documentName |-> doc.name,
      pageNumber |-> page.pageNumber,
      content |-> page.text,
      snippet |-> substring(page.text, SnippetChars) \o Ellipsis,
      relevanceScore |-> similarity,
      position |-> [x |-> 0, y |-> 0, width |-> 100, height |-> 20]],
   score |-> similarity]

\* for (const page of doc.pageEmbeddings) { ... }
RECURSIVE ScanPages(_, _, _, _, _, _, _)
ScanPages(doc, j, currentDocId, currentPage, queryEmbedding, queryKeywords, found) ==
  IF j > Len(doc.pageEmbeddings) THEN found
  ELSE LET page == doc.pageEmbeddings[j]
           similarity == SimilarityOf[Features(queryEmbedding, queryKeywords),
                                      Features(page.embedding, page.keywords)]
           next == IF IsCurrentPage(doc.id, page.pageNumber, currentDocId, currentPage)
                     THEN found
                   ELSE IF IsRelevant(similarity)
                     THEN Append(found, Section(doc, page, similarity))
                   ELSE found
       IN  ScanPages(doc, j + 1, currentDocId, currentPage,
                     queryEmbedding, queryKeywords, next)

\* for (const [docId, doc] of this.documents.entries()) { ... }
RECURSIVE ScanDocuments(_, _, _, _, _, _, _)
ScanDocuments(map, i, currentDocId, currentPage, queryEmbedding, queryKeywords, found) ==
  IF i > Len(map) THEN found
  ELSE ScanDocuments(map, i + 1, currentDocId, currentPage, queryEmbedding,
                     queryKeywords,
                     ScanPages(map[i], 1, currentDocId, currentPage,
                               queryEmbedding, queryKeywords, found))

\* an insertion that puts a candidate before those of equal score
RECURSIVE InsertBeforeEqual(_, _)
InsertBeforeEqual(sorted, e) ==
  IF sorted = <<>> THEN <<e>>
  ELSE IF Head(sorted).score > e.score
    THEN <<Head(sorted)>> \o InsertBeforeEqual(Tail(sorted), e)
    ELSE <<e>> \o sorted

\* Array.prototype.sort((a, b) => b.score - a.score): stable, descending
RECURSIVE InsertByScore(_, _)
InsertByScore(sorted, e) ==
  IF sorted = <<>> THEN <<e>>
  ELSE IF Head(sorted).score >= e.score
    THEN <<Head(sorted)>> \o InsertByScore(Tail(sorted), e)
    ELSE <<e>> \o sorted

RECURSIVE SortByScore(_, _, _)
SortByScore(items, i, sorted) ==
  IF i > Len(items) THEN sorted
  ELSE SortByScore(items, i + 1, InsertByScore(sorted, items[i]))

MaxResults == 5

\* .slice(0, 5)
Slice(items) == SubSeq(items, 1, IF Len(items) < MaxResults THEN Len(items) ELSE MaxResults)

\* every candidate above the floor, in scan order
RelatedSections(map, currentDocId, currentPage, selectedText) ==
  LET queryText == QueryText(MapGet(map, currentDocId), currentPage, selectedText)
  IN  ScanDocuments(map, 1, currentDocId, currentPage,
                    EmbeddingOf[queryText], KeywordsOf[queryText], <<>>)

\* the parsed element has the pages of a DocumentEmbedding
HasPages(doc) == "pageEmbeddings" \in DOMAIN doc

\* findRelatedSections after its await raises a TypeError: currentDoc is
\* there, and currentDoc.pageEmbeddings[currentPage - 1] (reached where
\* selectedText is falsy) or the loop over doc.pageEmbeddings of some
\* document reads a pageEmbeddings that is undefined
Raises(map, currentDocId, selectedText) ==
  /\ MapHas(map, currentDocId)
  /\ \/ /\ selectedText = Undefined \/ selectedText[1] = EmptyText
        /\ ~HasPages(MapGet(map, currentDocId))
     \/ \E i \in 1..Len(map) : ~HasPages(map[i])

\* findRelatedSections after its await: lines 81-125; what it returns, and
\* the empty list where it raises
Related(map, currentDocId, currentPage, selectedText) ==
  IF ~MapHas(map, currentDocId) \/ Raises(map, currentDocId, selectedText) THEN <<>>
  ELSE LET top == Slice(SortByScore(
                    RelatedSections(map, currentDocId, currentPage, selectedText),
                    1, <<>>))
       IN  [k \in 1..Len(top) |-> top[k].section]

\* ------------------------------------------------------------ the engine

VARIABLES
  documents,      \* this.documents, in insertion order
  isInitialized,  \* this.isInitialized
  storage,        \* the localStorage item 'offline_documents'
  pending,        \* findRelatedSections calls suspended at await this.initialize()
  ret,            \* what the last step returned to its caller
  io,             \* the localStorage calls of the last step, with their outcome
  ingested,       \* history: what addDocument built in this process since the
                  \* last clearStorage, per id the latest, and whether it
                  \* came after an earlier addDocument of the same id
  cleared         \* history: the ids that the last clearStorage whose
                  \* removeItem returned took from the corpus and the store,
                  \* while no addDocument was called since

vars == <<documents, isInitialized, storage, pending, ret, io, ingested, cleared>>

NoRet ==
  [op |-> "none", id |-> "", page |-> 0, selectedText |-> Undefined,
   textContent |-> <<>>, value |-> <<>>, count |-> 0, threw |-> FALSE]

\* an array that an earlier writer left with a null element after an entry
BrokenItem == ArrayItem(<<Embedding(DocB, <<TEee>>), NullElement>>)

\* an array whose element has an id and a name and no pageEmbeddings
ShapelessItem == ArrayItem(<<DocB>>)

InitialItems == {NoItem, CorruptItem, ObjectItem, BrokenItem, ShapelessItem}

Init ==
  /\ documents = <<>>
  /\ isInitialized = FALSE
  /\ storage \in InitialItems
  /\ pending = <<>>
  /\ ret = NoRet
  /\ io = <<>>
  /\ ingested = {}
  /\ cleared = {}

\* the history after addDocument built entry
Ingest(history, entry) ==
  {g \in history : g.entry.id # entry.id}
    \cup {[entry |-> entry,
           reingested |-> \E g \in history : g.entry.id = entry.id]}

\* addDocument(document, textContent); setOk: localStorage.setItem returns
addDocument(document, textContent, setOk) ==
  /\ documents' = MapSet(documents, document.id, Embedding(document, textContent))
  /\ storage' = Saved(documents', storage, setOk)
  /\ io' = <<Call("setItem", setOk)>>
  /\ ret' = [NoRet EXCEPT !.op = "addDocument", !.id = document.id,
                           !.textContent = textContent]
  /\ ingested' = Ingest(ingested, Embedding(document, textContent))
  /\ cleared' = {}
  /\ UNCHANGED <<isInitialized, pending>>

\* findRelatedSections(...) up to its await; getOk: localStorage.getItem returns
findRelatedSections(currentDocId, currentPage, selectedText, getOk) ==
  /\ isInitialized => getOk
  /\ LET r == initialize(documents, isInitialized, storage, getOk)
     IN  /\ documents' = r.documents
         /\ isInitialized' = r.isInitialized
         /\ io' = r.io
  /\ pending' = Append(pending, [id |-> currentDocId, page |-> currentPage,
                                 selectedText |-> selectedText])
  /\ ret' = NoRet
  /\ UNCHANGED <<storage, ingested, cleared>>

\* the oldest suspended findRelatedSections runs from its await to its return
Resume ==
  /\ pending # <<>>
  /\ LET q == Head(pending)
     IN  ret' = [NoRet EXCEPT !.op = "findRelatedSections", !.id = q.id,
                              !.page = q.page, !.selectedText = q.selectedText,
                              !.value = Related(documents, q.id, q.page, q.selectedText),
                              !.threw = Raises(documents, q.id, q.selectedText)]
  /\ pending' = Tail(pending)
  /\ io' = <<>>
  /\ UNCHANGED <<documents, isInitialized, storage, ingested, cleared>>

\* the ids of the corpus and of the entries of the stored array
Held(map, item) ==
  {map[i].id : i \in 1..Len(map)}
    \cup {item.elements[k].id :
            k \in {n \in 1..Len(item.elements) : ~IsNull(item.elements[n])}}

\* a removeItem that leaves the item where it is
RemovedNothing(item, removeOk) == item

\* what localStorage.removeItem leaves in the store
Removed(item, removeOk) == IF removeOk THEN NoItem ELSE item

\* clearStorage(); removeOk: localStorage.removeItem returns.  There is no
\* try around removeItem: where it throws, the promise of clearStorage
\* rejects, after this.documents.clear().
clearStorage(removeOk) ==
  /\ documents' = <<>>
  /\ storage' = Removed(storage, removeOk)
  /\ io' = <<Call("removeItem", removeOk)>>
  /\ ret' = [NoRet EXCEPT !.op = "clearStorage", !.threw = ~removeOk]
  /\ ingested' = {}
  /\ cleared' = IF removeOk THEN Held(documents, storage) ELSE {}
  /\ UNCHANGED <<isInitialized, pending>>

getDocumentCount ==
  /\ ret' = [NoRet EXCEPT !.op = "getDocumentCount", !.count = Len(documents)]
  /\ io' = <<>>
  /\ UNCHANGED <<documents, isInitialized, storage, pending, ingested, cleared>>

\* The page is reloaded: a new engine instance over the same localStorage.
Restart ==
  /\ documents' = <<>>
  /\ isInitialized' = FALSE
  /\ pending' = <<>>
  /\ ret' = [NoRet EXCEPT !.op = "restart"]
  /\ io' = <<>>
  /\ ingested' = {}
  /\ UNCHANGED <<storage, cleared>>

\* the page asked for under Spec
SpecPages == {1}

Next ==
  \/ \E document \in Docs, textContent \in PageLists, setOk \in BOOLEAN :
       addDocument(document, textContent, setOk)
  \/ /\ Len(pending) < MaxPending
     /\ \E id \in DocIds, page \in SpecPages, getOk \in BOOLEAN :
          findRelatedSections(id, page, Undefined, getOk)
  \/ Resume
  \/ \E removeOk \in BOOLEAN : clearStorage(removeOk)
  \/ getDocumentCount
  \/ Restart

Spec == Init /\ [][Next]_vars

\* Ranking: larger documents and every selection, each call awaited, a
\* store that works.
InitRank ==
  /\ documents = <<>>
  /\ isInitialized = FALSE
  /\ storage = NoItem
  /\ pending = <<>>
  /\ ret = NoRet
  /\ io = <<>>
  /\ ingested = {}
  /\ cleared = {}

NextRank ==
  \/ \E document \in Docs, textContent \in RankLists :
       addDocument(document, textContent, TRUE)
  \/ /\ pending = <<>>
     /\ \E id \in DocIds, page \in 1..MaxPage, selectedText \in Selections :
          findRelatedSections(id, page, selectedText, TRUE)
  \/ Resume
  \/ clearStorage(TRUE)
  \/ getDocumentCount
  \/ Restart

SpecRank == InitRank /\ [][NextRank]_vars

\* Ingestion: every kind of segment list, a store that works.
NextIngest ==
  \/ \E document \in Docs, textContent \in SegmentLists :
       addDocument(document, textContent, TRUE)
  \/ clearStorage(TRUE)
  \/ getDocumentCount
  \/ Restart

SpecIngest == InitRank /\ [][NextIngest]_vars

\* Scenarios: pages of prose, every selection, each call awaited, a store
\* that works.
NextScenario ==
  \/ \E document \in Docs, textContent \in ScenarioLists :
       addDocument(document, textContent, TRUE)
  \/ /\ pending = <<>>
     /\ \E id \in DocIds, page \in 1..MaxPage, selectedText \in Selections :
          findRelatedSections(id, page, selectedText, TRUE)
  \/ Resume
  \/ clearStorage(TRUE)
  \/ getDocumentCount
  \/ Restart

SpecScenario == InitRank /\ [][NextScenario]_vars

\* ------------------------------------------------------------ ranking claims

IsFind == ret.op = "findRelatedSections"

\* the features of the query that produced ret
RetQuery ==
  LET t == QueryText(MapGet(documents, ret.id), ret.page, ret.selectedText)
  IN  Features(EmbeddingOf[t], KeywordsOf[t])

\* the score of page j of document i against the query that produced ret
ScoreAt(i, j) ==
  LET page == documents[i].pageEmbeddings[j]
  IN  SimilarityOf[RetQuery, Features(page.embedding, page.keywords)]

\* the positions <<i, j>> of the pages that qualify for the query of ret:
\* not the current page, and a score above 0.3
Qualifying ==
  { c \in UNION { {<<i, j>> : j \in 1..Len(documents[i].pageEmbeddings)} :
                  i \in 1..Len(documents) } :
      /\ ~(documents[c[1]].id = ret.id
           /\ documents[c[1]].pageEmbeddings[c[2]].pageNumber = ret.page)
      /\ ScoreAt(c[1], c[2]) > Threshold }

\* C1: self-exclusion: no result of findRelatedSections(docId, pageNumber,
\* queryText?) has documentId = docId and pageNumber = pageNumber.
C1_SelfExclusion ==
  IsFind =>
    \A k \in 1..Len(ret.value) :
      ~(ret.value[k].documentId = ret.id /\ ret.value[k].pageNumber = ret.page)

\* C1 witness: a query whose own page is stored and scores above 0.3 against
\* the query text, answered with another page of the same document.
C1_Witness ==
  /\ IsFind
  /\ MapHas(documents, ret.id)
  /\ LET i == KeyIndex(documents, ret.id, 1)
     IN  /\ ret.page \in 1..Len(documents[i].pageEmbeddings)
         /\ ScoreAt(i, ret.page) > Threshold
  /\ \E k \in 1..Len(ret.value) : ret.value[k].documentId = ret.id

\* C2: threshold law: every returned result has relevanceScore strictly
\* above 0.3 and at most 5 results are returned.
C2_ThresholdLaw ==
  IsFind =>
    /\ Len(ret.value) <= MaxResults
    /\ \A k \in 1..Len(ret.value) : ret.value[k].relevanceScore > Threshold

\* C2 witness: more than 5 pages qualify and exactly 5 are returned.
C2_Witness ==
  /\ IsFind
  /\ MapHas(documents, ret.id)
  /\ Cardinality(Qualifying) > MaxResults
  /\ Len(ret.value) = MaxResults

\* c is ranked before d: a higher score, or the same score and earlier in
\* the scan (documents in insertion order, pages in array order)
RankedBefore(c, d) ==
  \/ ScoreAt(c[1], c[2]) > ScoreAt(d[1], d[2])
  \/ /\ ScoreAt(c[1], c[2]) = ScoreAt(d[1], d[2])
     /\ (c[1] < d[1] \/ (c[1] = d[1] /\ c[2] < d[2]))

\* C3: ranking: the result is the first 5 of the qualifying pages ordered by
\* score descending, equal scores in scan order.
C3_Ranking ==
  (IsFind /\ MapHas(documents, ret.id)) =>
    /\ Len(ret.value) = IF Cardinality(Qualifying) < MaxResults
                          THEN Cardinality(Qualifying) ELSE MaxResults
    /\ \A k \in 1..Len(ret.value) :
         \E c \in Qualifying :
           /\ Cardinality({d \in Qualifying : RankedBefore(d, c)}) = k - 1
           /\ ret.value[k].documentId = documents[c[1]].id
           /\ ret.value[k].pageNumber = documents[c[1]].pageEmbeddings[c[2]].pageNumber
           /\ ret.value[k].relevanceScore = ScoreAt(c[1], c[2])
    /\ \A i \in 1..Len(documents) : \A j \in 1..Len(documents[i].pageEmbeddings) :
         documents[i].pageEmbeddings[j].pageNumber = j

\* C3 witness: 5 results of which two neighbours from different documents
\* tie, two differ in score, and a qualifying page is left out.
C3_Witness ==
  /\ IsFind
  /\ Len(ret.value) = MaxResults
  /\ Cardinality(Qualifying) > MaxResults
  /\ \E k \in 1..(MaxResults - 1) :
       /\ ret.value[k].relevanceScore = ret.value[k + 1].relevanceScore
       /\ ret.value[k].documentId # ret.value[k + 1].documentId
  /\ \E k \in 1..(MaxResults - 1) :
       ret.value[k].relevanceScore > ret.value[k + 1].relevanceScore

\* ------------------------------------------------------------ lifecycle claims

IsAdd == ret.op = "addDocument"

\* the elements of a stored array that are entries
StoredEntries(item) ==
  IF item.kind = "array"
    THEN {item.elements[k] : k \in {n \in 1..Len(item.elements) : ~IsNull(item.elements[n])}}
    ELSE {}

Entries(map) == {map[i] : i \in 1..Len(map)}

\* the page of an ingested entry a result stands for holds the result's content
BuiltFrom(section, entry) ==
  /\ section.pageNumber \in 1..Len(entry.pageEmbeddings)
  /\ section.content = entry.pageEmbeddings[section.pageNumber].text

\* C4: addDocument called again with the same id and other text replaces the
\* entry: the count stays, the entry is the one of the second call, and a
\* later query returns no result built from pages of the first call.
C4_Reingestion ==
  [][ /\ (IsAdd' /\ MapHas(documents, ret'.id)) => Len(documents') = Len(documents)
      /\ IsAdd' => \E g \in ingested' :
                     g.entry.id = ret'.id /\ MapGet(documents', ret'.id) = g.entry
      /\ IsFind' => \A k \in 1..Len(ret'.value) : \A g \in ingested' :
                      (g.reingested /\ g.entry.id = ret'.value[k].documentId)
                        => BuiltFrom(ret'.value[k], g.entry) ]_vars

\* the corpus of a new instance that loads the store without a failure
Fresh == initialize(<<>>, FALSE, storage, TRUE)

\* C5: after an addDocument whose write succeeded, a new instance over the same
\* store answers every query as this instance does (whether or not this
\* instance still has to load, and whether or not that load's read succeeds).
C5_RoundTrip ==
  (IsAdd /\ io = <<Call("setItem", TRUE)>>) =>
    /\ Fresh.isInitialized
    /\ \A id \in DocIds, page \in 1..MaxPage, selectedText \in Selections,
          getOk \in BOOLEAN :
         Related(Fresh.documents, id, page, selectedText)
           = Related(initialize(documents, isInitialized, storage, getOk).documents,
                     id, page, selectedText)

\* C5 witness: two documents were saved and a new instance returns a result.
C5_Witness ==
  /\ IsAdd /\ io = <<Call("setItem", TRUE)>>
  /\ Len(documents) = 2
  /\ \E id \in DocIds : Related(Fresh.documents, id, 1, Undefined) # <<>>

\* C6: an addDocument whose write failed completes, and while the version it
\* ingested is not the persisted one the corpus holds that version: no later
\* operation, a lazy load included, restores an older persisted version.
C6_NoRollback ==
  /\ IsAdd => ~ret.threw
  /\ \A g \in ingested :
       g.entry \notin StoredEntries(storage) =>
         (MapHas(documents, g.entry.id) /\ MapGet(documents, g.entry.id) = g.entry)

\* nothing has been called on the instance yet
IsNew == ret.op = "restart" \/ (ret = NoRet /\ pending = <<>>)

\* the entries of a list of entries that an instance has yet to load
Unloaded ==
  IF IsNew /\ Len(storage.elements) = Cardinality(StoredEntries(storage))
    THEN StoredEntries(storage)
    ELSE {}

\* C7: addDocument(X, ...) keeps every other document, those of the corpus
\* and those an earlier process persisted and this new instance has yet to
\* load, in the corpus and, when the write succeeds, in the payload.
C7_OthersKept ==
  [][ IsAdd' =>
        \A e \in Entries(documents) \cup Unloaded :
          e.id # ret'.id =>
            /\ e \in Entries(documents')
            /\ io' = <<Call("setItem", TRUE)>> => e \in StoredEntries(storage') ]_vars

\* the step is a call of addDocument, findRelatedSections, clearStorage or
\* getDocumentCount
IsCall ==
  \/ ret'.op \in {"addDocument", "clearStorage", "getDocumentCount"}
  \/ Len(pending') > Len(pending)

ReadsStore == io' # <<>> /\ io'[1].call = "getItem"

\* C8: the first operation on an engine that is not initialized, whichever
\* it is, loads the persisted corpus first.
C8_LazyInit == [][ (~isInitialized /\ IsCall) => ReadsStore ]_vars

\* the read or the parse of the item fails, or it is no list of entries
LoadFails(item, getOk) ==
  \/ ~getOk
  \/ item.kind \in {"corrupt", "object"}
  \/ item.kind = "array" /\ \E k \in 1..Len(item.elements) : IsNull(item.elements[k])

\* C9: a load that fails leaves the engine initialized, with nothing loaded.
C9_LoadFailureReady ==
  [][ (ReadsStore /\ LoadFails(storage, io'[1].ok))
        => (isInitialized' /\ documents' = documents) ]_vars

\* a load has completed: the flag is set, or the call before this step ran
\* initialize() to its end
LoadCompleted == isInitialized \/ (io # <<>> /\ io[1].call = "getItem")

\* C10: once a load has completed, whether or not it failed, no call reads
\* the store again and a findRelatedSections call, made while another one is
\* suspended or not, leaves the corpus as it is.
C10_LoadOnce ==
  [][ (LoadCompleted /\ ret'.op # "restart") =>
        /\ ~ReadsStore
        /\ Len(pending') > Len(pending) => documents' = documents ]_vars

\* ------------------------------------------------------------ clear

IsClear == ret.op = "clearStorage"

IsCount == ret.op = "getDocumentCount"

\* C11: after a clearStorage() whose removeItem returned, on an engine that
\* was initialized or not, and until the next addDocument: the corpus is
\* empty and getDocumentCount() returns 0, findRelatedSections on an id that
\* was in the corpus or the store returns an empty list, the item is gone
\* and a new instance over the store loads nothing.
C11_Clear ==
  cleared # {} =>
    /\ documents = <<>>
    /\ IsCount => ret.count = 0
    /\ (IsFind /\ ret.id \in cleared) => (ret.value = <<>> /\ ~ret.threw)
    /\ storage = NoItem
    /\ Fresh.isInitialized /\ Fresh.documents = <<>>

\* C11 witness: a query on a cleared id has returned, on an engine that has
\* loaded the store only after the clear.
C11_Witness ==
  /\ IsFind /\ ret.id \in cleared
  /\ isInitialized
  /\ cleared = DocIds

\* C12: a clearStorage() whose removeItem throws does not raise to its
\* caller, and the corpus is emptied.
C12_BestEffort == IsClear => (~ret.threw /\ documents = <<>>)

\* C13: whatever the store does and holds, addDocument completes without
\* raising and findRelatedSections returns a list without raising.
C13_NeverRaises == (IsAdd \/ IsFind) => ~ret.threw

Added == MapGet(documents, ret.id)

\* the indices of the pages of an entry that have the page number n
PagesNumbered(entry, n) ==
  {j \in 1..Len(entry.pageEmbeddings) : entry.pageEmbeddings[j].pageNumber = n}

\* C15: addDocument stores one page for each segment that is not empty, with
\* the number of the segment's position and its first 1000 characters, none
\* for an empty segment, and the pages in ascending order of their numbers.
C15_EmptySkipped ==
  IsAdd =>
    /\ \A i \in 1..Len(ret.textContent) :
         IF ret.textContent[i] = EmptyText
           THEN PagesNumbered(Added, i) = {}
           ELSE /\ Cardinality(PagesNumbered(Added, i)) = 1
                /\ \A j \in PagesNumbered(Added, i) :
                     Added.pageEmbeddings[j].text
                       = substring(ret.textContent[i], MaxStoredChars)
    /\ \A j \in 1..Len(Added.pageEmbeddings) :
         /\ Added.pageEmbeddings[j].pageNumber \in 1..Len(ret.textContent)
         /\ \A k \in 1..(j - 1) :
              Added.pageEmbeddings[k].pageNumber < Added.pageEmbeddings[j].pageNumber

\* C16: every entry of the corpus has at least one page.
C16_PagesNeverEmpty ==
  \A i \in 1..Len(documents) : Len(documents[i].pageEmbeddings) >= 1

\* ------------------------------------------------------------ the query source

\* the call of ret asked for a page beyond the last one of its document
BeyondLastPage ==
  /\ MapHas(documents, ret.id)
  /\ ret.page > Len(MapGet(documents, ret.id).pageEmbeddings)

\* C17: findRelatedSections with an id that is not in the corpus, or without
\* selectedText and with a page number beyond the last page of the document,
\* returns an empty list and does not raise.
C17_MissingData ==
  (IsFind /\ (~MapHas(documents, ret.id)
               \/ (ret.selectedText = Undefined /\ BeyondLastPage)))
    => (ret.value = <<>> /\ ~ret.threw)

\* C17 witness: a query without selectedText for a page beyond the last one,
\* on a corpus of two documents.
C17_Witness ==
  /\ IsFind /\ ret.selectedText = Undefined /\ BeyondLastPage
  /\ Len(documents) = 2

\* C18: a selectedText that is given is the query, the empty one included:
\* findRelatedSections with selectedText '' returns an empty list, whatever
\* the stored text of the page is.
C18_QuerySource ==
  (IsFind /\ ret.selectedText = <<EmptyText>>) => ret.value = <<>>

\* ------------------------------------------------------------ features of a page

\* the pages of the corpus
StoredPages ==
  UNION {{documents[i].pageEmbeddings[j] : j \in 1..Len(documents[i].pageEmbeddings)}
           : i \in 1..Len(documents)}

\* the text has a run of more than two word characters
HasLongerToken(text) ==
  \E i \in 1..(Len(text) - 2) :
    IsWordChar(text[i]) /\ IsWordChar(text[i + 1]) /\ IsWordChar(text[i + 2])

\* C19: the embedding of every text has exactly 100 coordinates, none of them
\* negative; for a text without a token of more than 2 characters (the empty
\* and the blank text among them) every coordinate is 0 and the keyword list
\* is empty; addDocument does not raise.
C19_Embedding ==
  /\ IsAdd => ~ret.threw
  /\ \A p \in StoredPages :
       /\ p.embedding.length = 100
       /\ DOMAIN p.embedding.num \subseteq 0..99
       /\ \A i \in 0..99 : Coordinate(p.embedding, i) >= 0
       /\ p.embedding.den >= 0
       /\ (\E i \in 0..99 : Coordinate(p.embedding, i) # 0) => p.embedding.den > 0
       /\ ~HasLongerToken(p.text) =>
            /\ \A i \in 0..99 : Coordinate(p.embedding, i) = 0
            /\ p.keywords = <<>>

\* C19 witness: the corpus holds the blank page, the page of short tokens
\* and a page whose embedding has a coordinate above 0.
C19_Witness ==
  /\ \A t \in {TBlank, TShort} : \E p \in StoredPages : p.text = t
  /\ \E p \in StoredPages : p.text = TOffline /\ Coordinate(p.embedding, 25) > 0

\* the lowercase tokens of at least 4 characters of a text, in text order
LongTokens(text) == MatchLongWords(toLowerCase(text))

\* the distinct tokens that are no stop word
Candidates(tokens) ==
  {w \in {tokens[i] : i \in 1..Len(tokens)} : w \notin StopWords}

Occurrences(tokens, w) == {i \in 1..Len(tokens) : tokens[i] = w}

First(tokens, w) ==
  CHOOSE i \in Occurrences(tokens, w) : \A j \in Occurrences(tokens, w) : i <= j

\* v comes before w: more occurrences, or as many and met earlier
ListedBefore(tokens, v, w) ==
  \/ Cardinality(Occurrences(tokens, v)) > Cardinality(Occurrences(tokens, w))
  \/ /\ Cardinality(Occurrences(tokens, v)) = Cardinality(Occurrences(tokens, w))
     /\ First(tokens, v) < First(tokens, w)

\* the keyword list is the one that the tokens of the text call for
IsKeywordList(keywords, tokens) ==
  /\ Len(keywords) <= 10
  /\ \A m, n \in 1..Len(keywords) : m # n => keywords[m] # keywords[n]
  /\ \A n \in 1..Len(keywords) :
       /\ Len(keywords[n]) >= 4
       /\ \A c \in 1..Len(keywords[n]) : ~IsIn(Upper, keywords[n][c])
       /\ keywords[n] \notin StopWords
       /\ keywords[n] \in Candidates(tokens)
       /\ Cardinality({v \in Candidates(tokens) : ListedBefore(tokens, v, keywords[n])})
            = n - 1
  /\ Len(keywords) = IF Cardinality(Candidates(tokens)) < 10
                       THEN Cardinality(Candidates(tokens)) ELSE 10

\* C20: the keyword list of every text has at most 10 entries, no duplicate,
\* only lowercase tokens of at least 4 characters that are no stop word, and
\* is the first 10 of the distinct such tokens of the text by descending
\* number of occurrences, first met first among equals.
C20_Keywords ==
  \A p \in StoredPages : IsKeywordList(p.keywords, LongTokens(p.text))

\* C20 witness: a stored page has more than 10 distinct candidate tokens,
\* equal counts among them, a stop word and an upper-case letter.
C20_Witness ==
  \E p \in StoredPages :
    /\ p.text = TMany
    /\ Cardinality(Candidates(LongTokens(p.text))) > 10
    /\ Len(p.keywords) = 10

\* ------------------------------------------------------------ scenarios

\* document A of the scenario, document B of the scenario
ScenarioA == Embedding(DocA, <<TMachine, TChef>>)

ScenarioB == Embedding(DocB, <<TTraining>>)

\* "machine", "learning", "training", "data"
SharedKeywords ==
  { <<"m","a","c","h","i","n","e">>, <<"l","e","a","r","n","i","n","g">>,
    <<"t","r","a","i","n","i","n","g">>, <<"d","a","t","a">> }

\* the query findRelatedSections("A", 1) has returned on the corpus of the scenario
IsScenario ==
  /\ IsFind /\ ret.id = "A" /\ ret.page = 1 /\ ret.selectedText = Undefined
  /\ Len(documents) = 2
  /\ MapGet(documents, "A") = ScenarioA
  /\ MapGet(documents, "B") = ScenarioB

\* C21: with A = ["machine learning models require training data", "the chef
\* prepared a delicious meal"] and B = ["training data is essential for
\* machine learning"] ingested, findRelatedSections("A", 1) returns B's page 1
\* first, the two pages having the keywords machine, learning, training and
\* data in common, and returns no page of A.
C21_Scenario ==
  IsScenario =>
    /\ ret.value # <<>>
    /\ ret.value[1].documentId = "B" /\ ret.value[1].pageNumber = 1
    /\ \A k \in 1..Len(ret.value) : ret.value[k].documentId # "A"
    /\ \A w \in SharedKeywords :
         /\ IsIn(ScenarioA.pageEmbeddings[1].keywords, w)
         /\ IsIn(ScenarioB.pageEmbeddings[1].keywords, w)

\* C21 witness: the query of the scenario has returned, B ingested before A.
C21_Witness == IsScenario /\ documents[1].id = "B"

\* ------------------------------------------------------------ the result record

\* head is the first n characters of text, or all of text where it is shorter
IsPrefix(head, text, n) ==
  /\ Len(head) = (IF Len(text) < n THEN Len(text) ELSE n)
  /\ \A c \in 1..Len(head) : head[c] = text[c]

\* snippet is the first 150 characters of text and then "..."
IsSnippet(snippet, text) ==
  /\ Len(snippet) = (IF Len(text) < 150 THEN Len(text) ELSE 150) + 3
  /\ \A c \in 1..(Len(snippet) - 3) : snippet[c] = text[c]
  /\ \A c \in (Len(snippet) - 2)..Len(snippet) : snippet[c] = "."

\* section is the record of page j of document i of the corpus
IsRecordOf(section, i, j) ==
  LET doc == documents[i]
      page == doc.pageEmbeddings[j]
  IN  /\ section.id = <<doc.id, "-", page.pageNumber>>
      /\ section.documentId = doc.id
      /\ section.documentName = doc.name
      /\ \E d \in Docs : d.id = doc.id /\ d.name = section.documentName
      /\ section.pageNumber = page.pageNumber
      /\ section.content = page.text
      /\ Len(section.content) <= 1000
      /\ IsSnippet(section.snippet, page.text)
      /\ section.relevanceScore = ScoreAt(i, j)
      /\ section.position = [x |-> 0, y |-> 0, width |-> 100, height |-> 20]

\* C22: every returned RelatedSection stands for a stored page (d, p): its id
\* is "d-p", its documentId d, its documentName the name stored for d, its
\* pageNumber p, its content the stored text of the page, which is the first
\* 1000 characters of the ingested segment, its snippet the first 150
\* characters of the stored text and then "...", its relevanceScore the score
\* it is ranked by, and its position the fixed rectangle.
C22_Record ==
  /\ IsAdd => \A i \in 1..Len(ret.textContent) :
                IsPrefix(Added.pageEmbeddings[i].text, ret.textContent[i], 1000)
  /\ IsFind => \A k \in 1..Len(ret.value) :
                 \E i \in 1..Len(documents) :
                   \E j \in 1..Len(documents[i].pageEmbeddings) :
                     IsRecordOf(ret.value[k], i, j)

\* C22 witness: a result whose content is cut at 1000 characters and whose
\* snippet is cut at 150, next to a result of another document.
C22_Witness ==
  /\ IsFind
  /\ \E k \in 1..Len(ret.value) :
       /\ Len(ret.value[k].content) = 1000
       /\ Len(ret.value[k].snippet) = 153
       /\ ret.value[k].documentId = "B"
  /\ \E k \in 1..Len(ret.value) :
       /\ Len(ret.value[k].content) < 150
       /\ ret.value[k].documentId = "A"

\* ------------------------------------------------------------ the count

\* the item is an array of entries with pages, as saveToStorage writes it
IsPayload(item) ==
  /\ item.kind = "array"
  /\ \A k \in 1..Len(item.elements) :
       ~IsNull(item.elements[k]) /\ HasPages(item.elements[k])

\* the step is a query: a findRelatedSections call up to its await, or from
\* its await to its return
IsQueryStep == ret'.op \in {"none", "findRelatedSections"}

\* C23: getDocumentCount() returns the number of distinct ids in the corpus,
\* and that number is not changed by a query (here: one that follows a
\* getDocumentCount() over a store holding a payload the engine wrote) nor by
\* an addDocument of an id that is in the corpus.
C23_Count ==
  [][ /\ IsCount' =>
           ret'.count = Cardinality({documents'[i].id : i \in 1..Len(documents')})
      /\ (IsCount /\ IsPayload(storage) /\ IsQueryStep)
           => Len(documents') = ret.count
      /\ (IsAdd' /\ MapHas(documents, ret'.id))
           => Len(documents') = Len(documents) ]_vars

\* ------------------------------------------------------------ the processing cap

\* the lowercase tokens of more than 2 characters of a text, in text order
QualifyingTokens(text) ==
  SelectSeq(MatchWords(toLowerCase(text)), LAMBDA w : Len(w) > 2)

\* the embedding counts, at the bucket of each, the occurrences of the
\* first cap distinct tokens and of no other token
IsCappedFold(embedding, tokens, cap) ==
  LET firsts == {i \in 1..Len(tokens) : \A j \in 1..(i - 1) : tokens[j] # tokens[i]}
      kept == {tokens[i] : i \in {f \in firsts : Cardinality({j \in firsts : j < f}) < cap}}
  IN  \A k \in 0..99 :
        Coordinate(embedding, k)
          = Cardinality({i \in 1..Len(tokens) :
                           tokens[i] \in kept /\ Bucket(tokens[i]) = k})

\* C24: for every text at most the first 50 distinct tokens of more than 2
\* characters, in the order they are met, contribute to the embedding; the
\* 51st and later distinct tokens add nothing to any coordinate.
C24_Cap ==
  \A p \in StoredPages : IsCappedFold(p.embedding, QualifyingTokens(p.text), 50)

\* ------------------------------------------------------------ the bucket

\* The bucket by residues: the hash is u modulo 2^32 with u % 100 got from
\* the halves (65536 % 100 = 36); where the signed value is negative its
\* absolute value is 2^32 - u, and 2^32 % 100 = 96.
BucketByResidue(word) ==
  LET h == HashFrom(word, 1, [hi |-> 0, lo |-> 0])
      u == ((h.hi % 100) * 36 + h.lo) % 100
  IN  IF h.hi >= 32768 THEN (196 - u) % 100 ELSE u

\* every token has a bucket in 0..99, the one its residues give, and the
\* embedding is non-zero only at buckets of tokens and holds at the bucket
\* of a token (one of the first 51) all the occurrences of that token
HasBuckets(embedding, tokens) ==
  /\ \A i \in 1..Len(tokens) :
       /\ Bucket(tokens[i]) \in 0..99
       /\ Bucket(tokens[i]) = BucketByResidue(tokens[i])
       /\ i <= 51 => Coordinate(embedding, BucketByResidue(tokens[i]))
                        >= Cardinality(Occurrences(tokens, tokens[i]))
  /\ \A k \in DOMAIN embedding.num :
       k \in 0..99 /\ \E i \in 1..Len(tokens) : BucketByResidue(tokens[i]) = k

\* C25: the rolling hash of a token (hash * 31 + charCode, wrapped to 32
\* bits after each character), then abs() and mod 100, is a bucket in 0..99,
\* also where the wrapped hash is negative ("offline", bucket 25) or -2^31
\* ("xfjfxtf", bucket 48), and equal tokens have the same bucket.
C25_Bucket ==
  \A p \in StoredPages :
    /\ HasBuckets(p.embedding, QualifyingTokens(p.text))
    /\ p.text = TOffline => DOMAIN p.embedding.num = {25}
    /\ p.text = TEdge => DOMAIN p.embedding.num = {48}

\* C25 witness: the corpus holds the page whose token hashes to -2^31 and the
\* page with twice the token of negative hash.
C25_Witness ==
  /\ \E p \in StoredPages : p.text = TEdge /\ Coordinate(p.embedding, 48) = 1
  /\ \E p \in StoredPages : p.text = TOffline /\ Coordinate(p.embedding, 25) = 2

\* ------------------------------------------------------------ the score guards

\* every coordinate is 0
IsZero(embedding) == \A k \in 0..99 : Coordinate(embedding, k) = 0

\* |A \cap B| / max(|A|, |B|, 1) of two lists without duplicates, in 1/Scale
KeywordComponent(a, b) ==
  LET A == {a[n] : n \in 1..Len(a)}
      B == {b[n] : n \in 1..Len(b)}
      most == IF Cardinality(A) >= Cardinality(B) THEN Cardinality(A) ELSE Cardinality(B)
  IN  (Scale * Cardinality(A \cap B)) \div (IF most >= 1 THEN most ELSE 1)

\* the text of the query that produced ret
RetQueryText == QueryText(MapGet(documents, ret.id), ret.page, ret.selectedText)

\* C26: the score never divides by zero: where the query or the page has a
\* vector of norm 0 the score is 0.3 times the keyword component, which is
\* |A \cap B| / max(|A|, |B|, 1), within [0, 1] and 0 where a keyword list is
\* empty; a page with empty text and a query with empty text score 0 against
\* everything, so no such page is returned and such a query returns nothing.
C26_Guards ==
  (IsFind /\ MapHas(documents, ret.id)) =>
    /\ ~ret.threw
    /\ \A i \in 1..Len(documents) : \A j \in 1..Len(documents[i].pageEmbeddings) :
         LET page == documents[i].pageEmbeddings[j]
             component == KeywordComponent(RetQuery.keywords, page.keywords)
         IN  /\ component \in 0..Scale
             /\ (RetQuery.keywords = <<>> \/ page.keywords = <<>>) => component = 0
             /\ ScoreAt(i, j) \in (KeywordWeight * component)..(10 * Scale)
             /\ (IsZero(RetQuery.embedding) \/ IsZero(page.embedding))
                  => ScoreAt(i, j) = KeywordWeight * component
             /\ (RetQueryText = EmptyText \/ page.text = EmptyText)
                  => ScoreAt(i, j) = 0
    /\ \A k \in 1..Len(ret.value) : ret.value[k].content # EmptyText
    /\ RetQueryText = EmptyText => ret.value = <<>>

\* C26 witness: a query on a page whose text is empty has returned nothing
\* while the other document holds a page with keywords.
C26_Witness ==
  /\ IsFind /\ MapHas(documents, ret.id)
  /\ ret.value = <<>>
  /\ ret.page \in 1..Len(MapGet(documents, ret.id).pageEmbeddings)
  /\ RetQueryText = EmptyText
  /\ \E i \in 1..Len(documents) :
       documents[i].id # ret.id /\ documents[i].pageEmbeddings[1].keywords # <<>>

\* ------------------------------------------------------------ interleavings

\* the entries that one addDocument call builds, and those an earlier writer
\* left in the store
WholeEntries ==
  {Embedding(d, l) : d \in Docs, l \in PageLists}
    \cup UNION {StoredEntries(item) : item \in InitialItems}

\* C27: whatever calls are pending, every entry of the corpus is the whole
\* entry of one ingestion (or of the store), a findRelatedSections scan
\* leaves the corpus as it is and returns what the corpus at its start calls
\* for, and the results with one documentId are pages of one such entry.
C27_Atomic ==
  [][ /\ \A i \in 1..Len(documents') : documents'[i] \in WholeEntries
      /\ ret'.op = "findRelatedSections" =>
           /\ documents' = documents
           /\ ret'.value = Related(documents, ret'.id, ret'.page, ret'.selectedText)
           /\ \A k \in 1..Len(ret'.value) :
                \E e \in WholeEntries :
                  /\ e = MapGet(documents, ret'.value[k].documentId)
                  /\ BuiltFrom(ret'.value[k], e) ]_vars

\* C27 witness: a scan has returned a page of a document that was ingested
\* twice, with other text and fewer pages the second time, while another
\* findRelatedSections call is suspended.
C27_Witness ==
  /\ IsFind /\ pending # <<>>
  /\ \E k \in 1..Len(ret.value) : \E g \in ingested :
       /\ g.reingested /\ g.entry.id = ret.value[k].documentId
       /\ Len(g.entry.pageEmbeddings) = 1
       /\ BuiltFrom(ret.value[k], g.entry)

\* ------------------------------------------------------------ durability

\* C28: after an addDocument whose write succeeded the payload holds every
\* document of the corpus and every document ingested since the last clear
\* as it was ingested, those whose own write had failed included.
C28_CatchUp ==
  (IsAdd /\ io = <<Call("setItem", TRUE)>>) =>
    /\ \A i \in 1..Len(documents) : documents[i] \in StoredEntries(storage)
    /\ \A g \in ingested : g.entry \in StoredEntries(storage)

\* ------------------------------------------------------------ the page lookup

\* the features that the engine extracts from a stored text
FeaturesOfText(text) == Features(EmbeddingOf[text], KeywordsOf[text])

\* C29: in every entry the page at position j (from 1) has pageNumber j, so
\* a findRelatedSections(docId, p) without selectedText scores every result
\* against the stored text of the one page of docId whose pageNumber is p,
\* and that page is the one left out of the results.
C29_PageLookup ==
  /\ \A i \in 1..Len(documents) : \A j \in 1..Len(documents[i].pageEmbeddings) :
       documents[i].pageEmbeddings[j].pageNumber = j
  /\ (IsFind /\ MapHas(documents, ret.id) /\ ret.selectedText = Undefined) =>
       LET doc == MapGet(documents, ret.id)
           numbered == PagesNumbered(doc, ret.page)
       IN  /\ Cardinality(numbered) <= 1
           /\ numbered = {} => ret.value = <<>>
           /\ \A n \in numbered : \A k \in 1..Len(ret.value) :
                LET r == ret.value[k]
                    page == MapGet(documents, r.documentId).pageEmbeddings[r.pageNumber]
                IN  /\ ~(r.documentId = ret.id /\ r.pageNumber = doc.pageEmbeddings[n].pageNumber)
                    /\ r.relevanceScore
                         = SimilarityOf[FeaturesOfText(doc.pageEmbeddings[n].text),
                                        Features(page.embedding, page.keywords)]

\* C29 witness: a query for page 2 of a document of three pages with three
\* different texts has returned pages 3 and 1 of that document.
C29_Witness ==
  /\ IsFind /\ MapHas(documents, ret.id) /\ ret.selectedText = Undefined
  /\ ret.page = 2
  /\ MapGet(documents, ret.id).pageEmbeddings[1].text = TDataCat
  /\ \E k \in 1..Len(ret.value) : ret.value[k].documentId = ret.id /\ ret.value[k].pageNumber = 3
  /\ \E k \in 1..Len(ret.value) : ret.value[k].documentId = ret.id /\ ret.value[k].pageNumber = 1

\* ------------------------------------------------------------ the frame of a query

\* C30: once the engine has loaded, a findRelatedSections call, up to its
\* await and from there to its return, leaves the corpus and the stored item
\* as they are and calls neither setItem nor removeItem; the same query
\* returning twice in a row returns the same results.
C30_ReadOnly ==
  [][ /\ (isInitialized /\ IsQueryStep) =>
           /\ documents' = documents
           /\ storage' = storage
           /\ isInitialized'
           /\ \A n \in 1..Len(io') : io'[n].call \notin {"setItem", "removeItem"}
      /\ (isInitialized /\ IsFind /\ ret'.op = "findRelatedSections"
             /\ ret'.id = ret.id /\ ret'.page = ret.page
             /\ ret'.selectedText = ret.selectedText)
           => ret'.value = ret.value ]_vars

\* C30 witness: on a loaded engine whose corpus is not what the store holds,
\* a query has returned results and the same query is suspended behind it.
C30_Witness ==
  /\ IsFind /\ isInitialized
  /\ ret.value # <<>>
  /\ pending # <<>>
  /\ Head(pending) = [id |-> ret.id, page |-> ret.page, selectedText |-> ret.selectedText]
  /\ Fresh.documents # documents

====
